---- MODULE Spec2Model ----
(***************************************************************************)
(* drsa/_nbdev.py: the nbdev symbol index of the drsa package.             *)
(*                                                                         *)
(* The module body is a straight line of six statements (lines 3, 5-15,    *)
(* 17-18, 20, 22, 24) that bind __all__, index, modules, doc_url, git_url  *)
(* and custom_doc_links in the module namespace.  Once the module is        *)
(* loaded, consumers read its attributes, call custom_doc_links and        *)
(* wildcard-import it.  A Python str is modelled as the sequence of its    *)
(* characters wherever its content matters (document names, module file    *)
(* names, URLs); identifiers that are only compared for equality (dict     *)
(* keys, attribute names) are TLA+ strings.                                *)
(***************************************************************************)
EXTENDS Integers, Sequences, FiniteSets, TLC

\* Number of concurrent consumers (threads) of the loaded module.
NumReaders == 2

\* Longest list a consumer's appends may grow modules to (SpecWriters only).
MaxModules == 3

Readers == 1..NumReaders

VARIABLES
    pc,        \* the next statement of the module body to execute
    bound,     \* the names bound in the module namespace
    all_,      \* __all__
    index,     \* the dict index: key -> document name
    modules,   \* the list modules
    doc_url,   \* the str doc_url
    git_url,   \* the str git_url
    last,      \* per consumer: its latest observation (attribute read or call)
    star       \* per consumer: the result of `from drsa._nbdev import *`

data == <<index, modules, doc_url, git_url>>
vars == <<pc, bound, all_, index, modules, doc_url, git_url, last, star>>

----------------------------------------------------------------------------
(* String literals of the source, as character sequences.                  *)

nb_00_functions ==
    <<"0", "0", "_", "f", "u", "n", "c", "t", "i", "o", "n", "s",
      ".", "i", "p", "y", "n", "b">>

nb_01_model ==
    <<"0", "1", "_", "m", "o", "d", "e", "l", ".", "i", "p", "y", "n", "b">>

functions_py ==
    <<"f", "u", "n", "c", "t", "i", "o", "n", "s", ".", "p", "y">>

model_py ==
    <<"m", "o", "d", "e", "l", ".", "p", "y">>

\* line 3, with the third name misspelt
all_literal_typo ==
    <<"index", "modules", "custom_doc_link", "git_url">>

\* line 3: __all__ = ["index", "modules", "custom_doc_links", "git_url"]
all_literal ==
    <<"index", "modules", "custom_doc_links", "git_url">>

\* lines 5-15 with the "DRSA" line repeating the key "survival_rate"
index_literal_dup ==
    << <<"assert_correct_input_shape", nb_00_functions>>,
       <<"assert_correct_output_shape", nb_00_functions>>,
       <<"survival_rate", nb_00_functions>>,
       <<"event_rate", nb_00_functions>>,
       <<"event_time", nb_00_functions>>,
       <<"log_survival_rate", nb_00_functions>>,
       <<"log_event_rate", nb_00_functions>>,
       <<"log_event_time", nb_00_functions>>,
       <<"event_time_loss", nb_00_functions>>,
       <<"event_rate_loss", nb_00_functions>>,
       <<"survival_rate", nb_01_model>> >>

\* lines 5-15: the key: value items of the dict display, in source order
index_literal ==
    << <<"assert_correct_input_shape", nb_00_functions>>,
       <<"assert_correct_output_shape", nb_00_functions>>,
       <<"survival_rate", nb_00_functions>>,
       <<"event_rate", nb_00_functions>>,
       <<"event_time", nb_00_functions>>,
       <<"log_survival_rate", nb_00_functions>>,
       <<"log_event_rate", nb_00_functions>>,
       <<"log_event_time", nb_00_functions>>,
       <<"event_time_loss", nb_00_functions>>,
       <<"event_rate_loss", nb_00_functions>>,
       <<"DRSA", nb_01_model>> >>

\* lines 17-18 with a third, repeated entry
modules_literal_extra ==
    <<functions_py, model_py, model_py>>

\* lines 17-18 with the two entries swapped
modules_literal_swapped ==
    <<model_py, functions_py>>

\* lines 17-18: modules = ["functions.py", "model.py"]
modules_literal ==
    <<functions_py, model_py>>

\* line 20 with the scheme "http://"
doc_url_literal_http ==
    <<"h", "t", "t", "p", ":", "/", "/",
      "c", "o", "l", "l", "i", "n", "p", "r", "a", "t", "h", "e", "r", ".",
      "g", "i", "t", "h", "u", "b", ".", "i", "o",
      "/", "d", "r", "s", "a", "/", "d", "r", "s", "a", "/">>

\* line 20: doc_url = "https://collinprather.github.io/drsa/drsa/"
doc_url_literal ==
    <<"h", "t", "t", "p", "s", ":", "/", "/",
      "c", "o", "l", "l", "i", "n", "p", "r", "a", "t", "h", "e", "r", ".",
      "g", "i", "t", "h", "u", "b", ".", "i", "o",
      "/", "d", "r", "s", "a", "/", "d", "r", "s", "a", "/">>

\* line 22: git_url = "https://github.com/collinprather/drsa/tree/master/"
git_url_literal ==
    <<"h", "t", "t", "p", "s", ":", "/", "/",
      "g", "i", "t", "h", "u", "b", ".", "c", "o", "m",
      "/", "c", "o", "l", "l", "i", "n", "p", "r", "a", "t", "h", "e", "r",
      "/", "d", "r", "s", "a", "/", "t", "r", "e", "e",
      "/", "m", "a", "s", "t", "e", "r", "/">>

----------------------------------------------------------------------------
(* Python values.                                                          *)

None == [type |-> "NoneType"]

\* Objects as consumers see them: the type of an object and its content.
PyDict(d) == [type |-> "dict", entries |-> d]

PyList(l) == [type |-> "list", items |-> l]

PyStr(s) == [type |-> "str", chars |-> s]

EmptyDict == [k \in {} |-> <<>>]

\* d[k] = v on a dict: a new key is added, an existing key is overwritten
DictSet(d, k, v) ==
    [x \in (DOMAIN d) \cup {k} |-> IF x = k THEN v ELSE d[x]]

\* del d[k]
DictDel(d, k) ==
    [x \in (DOMAIN d) \ {k} |-> d[x]]

\* A dict display evaluates its items left to right; a repeated key keeps
\* the last value.
RECURSIVE DictOf(_)
DictOf(items) ==
    IF items = <<>> THEN EmptyDict
    ELSE LET n == Len(items)
         IN  DictSet(DictOf(SubSeq(items, 1, n - 1)), items[n][1], items[n][2])

\* The arguments consumers pass to custom_doc_links: a key of index, a
\* name that is not a key, and the empty string.
Names == {"survival_rate", "no_such_symbol", ""}

----------------------------------------------------------------------------
(* The function of the module.                                             *)

\* an index-backed resolver: index[name], KeyError for an unknown name
custom_doc_links_lookup(name) ==
    IF name \in DOMAIN index
    THEN [kind |-> "return", value |-> PyStr(index[name])]
    ELSE [kind |-> "raise", value |-> [type |-> "KeyError"]]

\* line 24: def custom_doc_links(name): return None
custom_doc_links(name) ==
    [kind |-> "return", value |-> None]

----------------------------------------------------------------------------
(* Loading: the statements of the module body, in order.                   *)

Init ==
    /\ pc = "line3"
    /\ bound = {}
    /\ all_ = <<>>
    /\ index = EmptyDict
    /\ modules = <<>>
    /\ doc_url = <<>>
    /\ git_url = <<>>
    /\ last = [r \in Readers |-> [attr |-> "none", arg |-> "", value |-> None]]
    /\ star = [r \in Readers |-> [done |-> FALSE, error |-> FALSE, names |-> {}]]

consumers == <<last, star>>

Load_all ==
    /\ pc = "line3"
    /\ all_' = all_literal
    /\ bound' = bound \cup {"__all__"}
    /\ pc' = "line5"
    /\ UNCHANGED <<index, modules, doc_url, git_url, consumers>>

Load_index ==
    /\ pc = "line5"
    /\ index' = DictOf(index_literal)
    /\ bound' = bound \cup {"index"}
    /\ pc' = "line17"
    /\ UNCHANGED <<all_, modules, doc_url, git_url, consumers>>

Load_modules ==
    /\ pc = "line17"
    /\ modules' = modules_literal
    /\ bound' = bound \cup {"modules"}
    /\ pc' = "line20"
    /\ UNCHANGED <<all_, index, doc_url, git_url, consumers>>

Load_doc_url ==
    /\ pc = "line20"
    /\ doc_url' = doc_url_literal
    /\ bound' = bound \cup {"doc_url"}
    /\ pc' = "line22"
    /\ UNCHANGED <<all_, index, modules, git_url, consumers>>

Load_git_url ==
    /\ pc = "line22"
    /\ git_url' = git_url_literal
    /\ bound' = bound \cup {"git_url"}
    /\ pc' = "line24"
    /\ UNCHANGED <<all_, index, modules, doc_url, consumers>>

Load_custom_doc_links ==
    /\ pc = "line24"
    /\ bound' = bound \cup {"custom_doc_links"}
    /\ pc' = "loaded"
    /\ UNCHANGED <<all_, index, modules, doc_url, git_url, consumers>>

\* consumers running against a module whose body has only begun to execute
Loaded_partial == pc # "line3"

\* The import of the module has returned: its whole body has executed.
Loaded == pc = "loaded"

----------------------------------------------------------------------------
(* Consumers of the loaded module.                                         *)

\* module.<name>: the bound value, AttributeError for a name not bound
GetAttr(name, value) ==
    IF name \in bound
    THEN [kind |-> "return", value |-> value]
    ELSE [kind |-> "raise", value |-> [type |-> "AttributeError"]]

Observe(r, attr, arg, outcome) ==
    last' = [last EXCEPT ![r] = [attr |-> attr, arg |-> arg, value |-> outcome]]

ReadIndex(r) ==
    /\ Loaded
    /\ Observe(r, "index", "", GetAttr("index", PyDict(index)))
    /\ UNCHANGED <<pc, bound, all_, data, star>>

ReadModules(r) ==
    /\ Loaded
    /\ Observe(r, "modules", "", GetAttr("modules", PyList(modules)))
    /\ UNCHANGED <<pc, bound, all_, data, star>>

ReadDocUrl(r) ==
    /\ Loaded
    /\ Observe(r, "doc_url", "", GetAttr("doc_url", PyStr(doc_url)))
    /\ UNCHANGED <<pc, bound, all_, data, star>>

ReadGitUrl(r) ==
    /\ Loaded
    /\ Observe(r, "git_url", "", GetAttr("git_url", PyStr(git_url)))
    /\ UNCHANGED <<pc, bound, all_, data, star>>

\* a resolver that also registers the name it was asked about in index
Call_registering(r, name) ==
    /\ Loaded
    /\ Observe(r, "custom_doc_links", name, custom_doc_links(name))
    /\ index' = DictSet(index, name, nb_00_functions)
    /\ UNCHANGED <<pc, bound, all_, modules, doc_url, git_url, star>>

\* custom_doc_links(name), called by consumer r
Call(r, name) ==
    /\ Loaded
    /\ LET outcome == IF "custom_doc_links" \in bound
                      THEN custom_doc_links(name)
                      ELSE [kind |-> "raise", value |-> [type |-> "NameError"]]
       IN  Observe(r, "custom_doc_links", name, outcome)
    /\ UNCHANGED <<pc, bound, all_, data, star>>

Range(s) == {s[i] : i \in DOMAIN s}

\* from drsa._nbdev import *, by consumer r: every name of __all__ is
\* fetched from the module and bound in the importer; a name the module
\* does not bind fails the import with AttributeError.  Without __all__
\* the public names of the module are imported.
StarImport(r) ==
    /\ Loaded
    /\ LET wanted == IF "__all__" \in bound THEN Range(all_)
                     ELSE bound \ {"__all__"}
       IN  star' = [star EXCEPT ![r] =
                      IF wanted \subseteq bound
                      THEN [done |-> TRUE, error |-> FALSE, names |-> wanted]
                      ELSE [done |-> TRUE, error |-> TRUE, names |-> {}]]
    /\ UNCHANGED <<pc, bound, all_, data, last>>

----------------------------------------------------------------------------
(* Writes a consumer can make through the exposed objects: index is a      *)
(* dict and modules a list, both mutable; the two str values are not.      *)

WriteKeys == {"survival_rate", "new_symbol"}

\* index[k] = v
index_setitem(k, v) ==
    /\ Loaded
    /\ index' = DictSet(index, k, v)
    /\ UNCHANGED <<pc, bound, all_, modules, doc_url, git_url, consumers>>

\* del index[k]
index_delitem(k) ==
    /\ Loaded
    /\ k \in DOMAIN index
    /\ index' = DictDel(index, k)
    /\ UNCHANGED <<pc, bound, all_, modules, doc_url, git_url, consumers>>

\* modules.append(m)
modules_append(m) ==
    /\ Loaded
    /\ Len(modules) < MaxModules
    /\ modules' = Append(modules, m)
    /\ UNCHANGED <<pc, bound, all_, index, doc_url, git_url, consumers>>

\* modules.pop()
modules_pop ==
    /\ Loaded
    /\ modules # <<>>
    /\ modules' = SubSeq(modules, 1, Len(modules) - 1)
    /\ UNCHANGED <<pc, bound, all_, index, doc_url, git_url, consumers>>

----------------------------------------------------------------------------

Load ==
    \/ Load_all
    \/ Load_index
    \/ Load_modules
    \/ Load_doc_url
    \/ Load_git_url
    \/ Load_custom_doc_links

Consume ==
    \E r \in Readers :
        \/ ReadIndex(r)
        \/ ReadModules(r)
        \/ ReadDocUrl(r)
        \/ ReadGitUrl(r)
        \/ \E name \in Names : Call(r, name)
        \/ StarImport(r)

Write ==
    \/ \E k \in WriteKeys : index_setitem(k, nb_01_model)
    \/ \E k \in WriteKeys : index_delitem(k)
    \/ modules_append(model_py)
    \/ modules_pop

\* The module and consumers that only read, call and import.
Next == Load \/ Consume

Spec == Init /\ [][Next]_vars

\* The module and consumers that also write through index and modules.
NextWriters == Load \/ Consume \/ Write

SpecWriters == Init /\ [][NextWriters]_vars

----------------------------------------------------------------------------
(* Properties.                                                             *)

NoneReturned == [kind |-> "return", value |-> None]

Returned(v) == [kind |-> "return", value |-> v]

\* C1: for every text input, a key of index or not, custom_doc_links
\* returns None and does not raise.
C1_LookupReturnsNone ==
    \A r \in Readers :
        last[r].attr = "custom_doc_links" => last[r].value = NoneReturned

\* A key of index and a name that is no key have both been looked up.
C1_Witness ==
    /\ last[1].attr = "custom_doc_links"
    /\ last[1].arg = "survival_rate"
    /\ last[1].arg \in DOMAIN index
    /\ last[2].attr = "custom_doc_links"
    /\ last[2].arg = "no_such_symbol"
    /\ last[2].arg \notin DOMAIN index

IndexKeys ==
    {"assert_correct_input_shape", "assert_correct_output_shape",
     "survival_rate", "event_rate", "event_time", "log_survival_rate",
     "log_event_rate", "log_event_time", "event_time_loss",
     "event_rate_loss", "DRSA"}

\* C2: once bound, index has exactly the eleven keys, each written once in
\* the dict display, DRSA mapped to "01_model.ipynb" and the other ten to
\* "00_functions.ipynb".
C2_IndexContents ==
    "index" \in bound =>
        /\ DOMAIN index = IndexKeys
        /\ Cardinality(DOMAIN index) = 11
        /\ \A i, j \in DOMAIN index_literal :
              index_literal[i][1] = index_literal[j][1] => i = j
        /\ index["DRSA"] = nb_01_model
        /\ \A k \in IndexKeys \ {"DRSA"} : index[k] = nb_00_functions
        /\ \A k \in DOMAIN index : index[k] \in {nb_00_functions, nb_01_model}

\* The module is loaded and a consumer has read index.
C2_Witness ==
    /\ Loaded
    /\ "index" \in bound
    /\ \E r \in Readers : last[r].attr = "index" /\ last[r].value = Returned(PyDict(index))

\* C3: once bound, modules is exactly ["functions.py", "model.py"], in that
\* order, with no duplicate and no further entry.
C3_ModulesList ==
    "modules" \in bound =>
        /\ Len(modules) = 2
        /\ modules[1] = functions_py
        /\ modules[2] = model_py
        /\ \A i, j \in DOMAIN modules : modules[i] = modules[j] => i = j

\* The module is loaded and a consumer has read modules.
C3_Witness ==
    /\ Loaded
    /\ "modules" \in bound
    /\ \E r \in Readers : last[r].attr = "modules" /\ last[r].value = Returned(PyList(modules))

\* A step in which some consumer's call of custom_doc_links returns.
CallStep ==
    \E r \in Readers :
        /\ last'[r].attr = "custom_doc_links"
        /\ last[r].attr = "custom_doc_links" => last'[r].arg # last[r].arg

\* C4: a call of custom_doc_links leaves index, modules, doc_url and git_url
\* as they were, and calls with the same argument have the same result.
C4_LookupHasNoEffect ==
    [][CallStep =>
          /\ UNCHANGED data
          /\ \A r1, r2 \in Readers :
                (/\ last'[r1].attr = "custom_doc_links"
                 /\ last'[r2].attr = "custom_doc_links"
                 /\ last'[r1].arg = last'[r2].arg)
                => last'[r1].value = last'[r2].value]_vars

\* Two calls with the same argument have returned and the data is as loaded.
C4_Witness ==
    /\ last[1].attr = "custom_doc_links"
    /\ last[2].attr = "custom_doc_links"
    /\ last[1].arg = last[2].arg
    /\ index = DictOf(index_literal)
    /\ modules = modules_literal

\* C5: after load, whatever consumers do with the exposed objects, index,
\* modules, doc_url and git_url keep the values they were bound to.
C5_ReadOnlyAfterLoad ==
    Loaded =>
        /\ index = DictOf(index_literal)
        /\ modules = modules_literal
        /\ doc_url = doc_url_literal
        /\ git_url = git_url_literal

\* C6: what the module exports (a wildcard import) holds the mapping, the
\* module list, the lookup function and both URL constants.
C6_ExportsBothUrls ==
    \A r \in Readers :
        star[r].done =>
            /\ ~star[r].error
            /\ {"index", "modules", "custom_doc_links", "doc_url", "git_url"}
                  \subseteq star[r].names

https_scheme == <<"h", "t", "t", "p", "s", ":", "/", "/">>

\* "https://" host "/" path..., the host not empty
WellFormedUrl(u) ==
    /\ Len(u) > Len(https_scheme)
    /\ SubSeq(u, 1, Len(https_scheme)) = https_scheme
    /\ u[Len(https_scheme) + 1] # "/"
    /\ \E i \in (Len(https_scheme) + 2)..Len(u) : u[i] = "/"

\* C7: doc_url and git_url are non-empty well-formed https URLs, and every
\* read of either returns the one value it was bound to.
C7_UrlsWellFormedAndStable ==
    /\ "doc_url" \in bound => doc_url # <<>> /\ WellFormedUrl(doc_url)
    /\ "git_url" \in bound => git_url # <<>> /\ WellFormedUrl(git_url)
    /\ \A r \in Readers :
          /\ last[r].attr = "doc_url" =>
                /\ last[r].value = Returned(PyStr(doc_url))
                /\ WellFormedUrl(last[r].value.value.chars)
          /\ last[r].attr = "git_url" =>
                /\ last[r].value = Returned(PyStr(git_url))
                /\ WellFormedUrl(last[r].value.value.chars)
    /\ \A r1, r2 \in Readers :
          (last[r1].attr = last[r2].attr /\ last[r1].attr \in {"doc_url", "git_url"})
          => last[r1].value = last[r2].value

\* One consumer has read doc_url and another git_url.
C7_Witness ==
    /\ last[1].attr = "doc_url"
    /\ last[2].attr = "git_url"

\* C8: in every interleaving of the consumers' reads and calls, any two
\* consumers that observed the same attribute observed the same value, that
\* value is the module's, and every call returned None.
C8_ReadersAgree ==
    /\ \A r1, r2 \in Readers :
          (last[r1].attr = last[r2].attr /\ last[r1].attr \in {"index", "modules", "doc_url", "git_url"})
          => last[r1].value = last[r2].value
    /\ \A r \in Readers :
          /\ last[r].attr = "index" => last[r].value = Returned(PyDict(index))
          /\ last[r].attr = "modules" => last[r].value = Returned(PyList(modules))
          /\ last[r].attr = "doc_url" => last[r].value = Returned(PyStr(doc_url))
          /\ last[r].attr = "git_url" => last[r].value = Returned(PyStr(git_url))
          /\ last[r].attr = "custom_doc_links" => last[r].value = NoneReturned

\* Two consumers have read index, one of them after a wildcard import.
C8_Witness ==
    /\ last[1].attr = "index"
    /\ last[2].attr = "index"
    /\ star[1].done

\* C9: every name listed in __all__ is bound by the loaded module, so a
\* wildcard import does not fail.
C9_AllNamesBound ==
    /\ Loaded =>
          /\ all_ = <<"index", "modules", "custom_doc_links", "git_url">>
          /\ \A i \in DOMAIN all_ : all_[i] \in bound
    /\ \A r \in Readers :
          star[r].done => ~star[r].error /\ star[r].names = Range(all_)

\* A consumer has wildcard-imported the module.
C9_Witness ==
    \E r \in Readers : star[r].done /\ "custom_doc_links" \in star[r].names

Digit == "0" :> 0 @@ "1" :> 1 @@ "2" :> 2 @@ "3" :> 3 @@ "4" :> 4 @@
         "5" :> 5 @@ "6" :> 6 @@ "7" :> 7 @@ "8" :> 8 @@ "9" :> 9

\* The digits before the first "_" of a document name.
PrefixLen(doc) ==
    Cardinality({i \in DOMAIN doc : \A j \in 1..i : doc[j] \in DOMAIN Digit})

RECURSIVE DecimalValue(_)
DecimalValue(ds) ==
    IF ds = <<>> THEN 0
    ELSE 10 * DecimalValue(SubSeq(ds, 1, Len(ds) - 1)) + Digit[ds[Len(ds)]]

PrefixNum(doc) == DecimalValue(SubSeq(doc, 1, PrefixLen(doc)))

ipynb_ext == <<".", "i", "p", "y", "n", "b">>

py_ext == <<".", "p", "y">>

\* The module file of a notebook: "NN_stem.ipynb" -> "stem.py".
ModuleOf(doc) ==
    SubSeq(doc, PrefixLen(doc) + 2, Len(doc) - Len(ipynb_ext)) \o py_ext

\* C10: every document named in index has exactly one entry in modules
\* ("NN_stem.ipynb" -> "stem.py"), every entry of modules is the module of
\* some indexed document, and modules is in the order of the documents'
\* numeric prefixes.
C10_IndexMatchesModules ==
    ("index" \in bound /\ "modules" \in bound) =>
        /\ \A k \in DOMAIN index :
              /\ SubSeq(index[k], Len(index[k]) - Len(ipynb_ext) + 1, Len(index[k])) = ipynb_ext
              /\ index[k][PrefixLen(index[k]) + 1] = "_"
              /\ Cardinality({i \in DOMAIN modules : modules[i] = ModuleOf(index[k])}) = 1
        /\ \A i \in DOMAIN modules :
              \E k \in DOMAIN index : ModuleOf(index[k]) = modules[i]
        /\ \A i, j \in DOMAIN modules : \A k1, k2 \in DOMAIN index :
              (/\ modules[i] = ModuleOf(index[k1])
               /\ modules[j] = ModuleOf(index[k2])
               /\ PrefixNum(index[k1]) < PrefixNum(index[k2]))
              => i < j

\* The module is loaded with both documents indexed, and consumers have
\* read index and modules.
C10_Witness ==
    /\ Loaded
    /\ {PrefixNum(index[k]) : k \in DOMAIN index} = {0, 1}
    /\ last[1].attr = "index"
    /\ last[2].attr = "modules"

====
